---- MODULE Spec2Model ----
(***************************************************************************)
(* RAID topology normalisation of ccbr_server: the vendor parsers          *)
(* (raid_md, raid_megacli, raid_omreport, raid_storcli), the linker        *)
(* RaidReport.connect_data and the probe batches run on a worker pool.     *)
(*                                                                         *)
(* Python values are encoded as follows.                                   *)
(*   - str            : a TLA+ string; + on strings is \o                  *)
(*   - None / object  : None is <<>>, a present value x is <<x>>           *)
(*   - list           : a sequence                                         *)
(*   - dict           : an insertion-ordered sequence of [key, obj]        *)
(*   - object reference: the position of the object in the list or dict    *)
(*     that holds it (adapters, phy_drives, log_drives)                    *)
(* Tool output is modelled at the level the parsers reduce it to: a        *)
(* sequence of blocks, each block the dict of the fields the parser reads. *)
(***************************************************************************)
EXTENDS Integers, Sequences, FiniteSets, TLC

\* ------------------------------------------------------------------ bounds
MaxDrives == 2          \* blocks in one physical-drive listing
MaxLogDrives == 2       \* blocks in one logical-drive listing / md arrays
MaxConnects == 2        \* runs of connect_data on one report
MaxConcurrency == 2     \* largest pool size a caller passes in a probe batch
MaxMounts == 2          \* NFS mount points in /etc/mtab
MaxRuns == 2            \* reports constructed in one process

\* --------------------------------------------------------------- constants
STATUS_GOOD == 0
STATUS_FAILING == 1
STATUS_FAILED == 2
TIMEOUT_EXIT == 124     \* exit status of timeout(1) when the command timed out
DEFAULT_CONCURRENCY == 4

None == <<>>
Some(x) == <<x>>

Managers == {"md", "megacli", "omreport", "storcli"}
LINUX_RAID == "Linux RAID"

\* ---------------------------------------------------------- sequence tools
Range(s) == {s[i] : i \in 1..Len(s)}

NoRepeat(s) == \A i, j \in 1..Len(s) : i /= j => s[i] /= s[j]

SeqsUpTo(S, n) == UNION {[1..k -> S] : k \in 0..n}

\* list.append on a present list
ListAppend(opt, x) == Some(Append(opt[1], x))

\* dict[k] = v on an insertion-ordered dict: an existing key keeps its place
DictHas(d, k) == \E i \in 1..Len(d) : d[i].key = k
DictIndex(d, k) == CHOOSE i \in 1..Len(d) : d[i].key = k
DictSet(d, k, v) ==
    IF DictHas(d, k)
    THEN [i \in 1..Len(d) |-> IF d[i].key = k THEN [key |-> k, obj |-> v] ELSE d[i]]
    ELSE Append(d, [key |-> k, obj |-> v])

\* ------------------------------------------------------------- vocabulary
\* controller numbers a hardware RAID tool reports
AdapterIds == {"0", "1"}

\* rank of an adapter id under Python's string order (sorted(..., key=id))
IdRank(s) == CASE s = "0" -> 0 [] s = "1" -> 1 [] OTHER -> 2

\* raw drive ids as each tool prints them: MegaCli 'Device Id', storcli
\* 'EID:Slt', omreport 'ID', lsblk NAME
DriveIds(m) ==
    CASE m = "megacli" -> {"4", "5"}
      [] m = "storcli" -> {"252:0", "252:1"}
      [] m = "omreport" -> {"0:0:0", "0:0:1"}
      [] OTHER -> {"sda", "sdb"}

\* storcli 'DID' of the drive in a given enclosure slot
StorCliDid(id) == IF id = "252:0" THEN "8" ELSE "9"

\* raw health strings: MegaCli 'Firmware state', storcli Basic 'State',
\* omreport 'Status', lsblk STATE
RawStates(m) ==
    CASE m = "megacli" -> {"Online, Spun Up", "Unconfigured(bad)", "Failed", "???"}
      [] m = "storcli" -> {"Onln", "UBad", "Offln", "???"}
      [] m = "omreport" -> {"Ok", "Critical", "Non-Critical", "???"}
      [] OTHER -> {"running", "offline", "???"}

HealthyState(m) ==
    CASE m = "megacli" -> "Online, Spun Up"
      [] m = "storcli" -> "Onln"
      [] m = "omreport" -> "Ok"
      [] OTHER -> "running"

\* 'Drive Temperature' values and str.split()[0] of them
RawTemperatures == {"30C (86.00 F)"}
FirstWord(s) == IF s = "30C (86.00 F)" THEN "30C" ELSE s

\* 'bad' in s, over the Firmware state values above
ContainsBad(s) == s \in {"Unconfigured(bad)"}

ArrayNames == {"/dev/md0", "/dev/md1"}
ArrayUuids == {"u0", "u1"}

VARIABLES
    manager,      \* raid_manager of the report that was instantiated
    arrays,       \* MdReport.arrays, filled by _check_array_list in __init__
    pc,           \* phase collect_all_data has completed, or "failed"
    error,        \* exception that left collect_all_data, "none" if none
    adapters,     \* RaidReport.adapters
    phy_drives,   \* RaidReport.phy_drives
    log_drives,   \* RaidReport.log_drives
    pd_listing,   \* drive blocks read by the last parse_physical_drives
    connects,     \* completed runs of connect_data
    concurrency,  \* self.concurrency of MdReport / SmartReport
    pool,         \* the multiprocessing pool of the probe batch
    batch,        \* progress of the probe batch
    kind,         \* which probe the batch runs: "examine" or "smart"
    tasks,        \* the items given to pool.map, each with its probe's progress
    results,      \* the list pool.map returned
    disks,        \* SmartReport.disks
    mounts,       \* StaleNFSReport.mounts
    files,        \* what os.listdir returned to automatic_cli
    on_path,      \* the managers one of whose executables is on PATH
    imported,     \* the raid_* modules automatic_cli has imported
    scan,         \* what `mdadm --detail --scan` did in MdReport.__init__
    considered,   \* entries of files the loop of automatic_cli is through with
    instantiated, \* per manager, how often its report class was called
    selection,    \* progress of automatic_cli
    runs,         \* reports constructed in this process
    exit_status,  \* exit status of the last command a parse step ran
    document,     \* what to_dict returned to cli.py, None before the call
    connect       \* the argument of collect_all_data

probe_vars == <<concurrency, pool, batch, kind, tasks, results, disks, mounts>>

select_vars == <<files, on_path, imported, scan, considered, instantiated, selection>>

vars == <<manager, arrays, pc, error, adapters, phy_drives, log_drives, pd_listing, connects,
          concurrency, pool, batch, kind, tasks, results, disks, mounts,
          files, on_path, imported, scan, considered, instantiated, selection, runs,
          exit_status, document, connect>>

\* ----------------------------------------------------------------- models
\* raid.Adapter.__init__; the three lists are class attributes set to None
Adapter(adapter_id) ==
    [adapter_id |-> adapter_id,
     logical_drives |-> None,
     physical_drives |-> None,
     spare_physical_drives |-> None]

\* raid.PhysicalDrive.__init__; adapter, logical_drive are None, data is {}
EmptyData == [role |-> None, uuid |-> None]
PhysicalDrive(drive_id, state, temperature, status, adapter_id, hotspare) ==
    [drive_id |-> drive_id,
     state |-> state,
     temperature |-> temperature,
     status |-> status,
     adapter_id |-> adapter_id,
     hotspare |-> hotspare,
     data |-> EmptyData,
     adapter |-> None,
     logical_drive |-> None]

\* raid.LogicalDrive.__init__
LogicalDrive(drive_id, state, adapter_id, pd_list, problem) ==
    [drive_id |-> drive_id,
     state |-> state,
     adapter_id |-> adapter_id,
     phy_drive_ids |-> pd_list,
     problem |-> problem,
     adapter |-> None,
     physical_drives |-> None]

\* ------------------------------------------------------------------- Init
\* A report has been instantiated (find_cli_path succeeded; for md,
\* _check_array_list found at least one array). The class-level lists are
\* empty in a fresh process.
ArrayLists == {s \in SeqsUpTo(ArrayNames, MaxLogDrives) : Len(s) >= 1 /\ NoRepeat(s)}

FreshReport ==
    /\ arrays \in (IF manager = "md" THEN ArrayLists ELSE {<<>>})
    /\ pc = "start"
    /\ error = "none"
    /\ adapters = <<>>
    /\ phy_drives = <<>>
    /\ log_drives = <<>>
    /\ pd_listing = <<>>
    /\ connects = 0
    /\ exit_status = 0
    /\ document = None
    /\ pool = [state |-> "none", processes |-> 0]
    /\ batch = "idle"
    /\ kind = "none"
    /\ tasks = <<>>
    /\ results = <<>>
    /\ disks = <<>>
    /\ mounts = <<>>

\* collect_data and the main() of every raid_* module call collect_all_data
\* with its default, connect=True
Fresh == FreshReport /\ connect = TRUE

\* the report was built by calling its class, as cli.py and the main() of
\* each raid_* module do: automatic_cli has not run
Direct ==
    /\ files = <<>>
    /\ on_path = {manager}
    /\ imported = {}
    /\ scan = IF manager = "md" THEN "arrays" ELSE "none"
    /\ considered = 0
    /\ instantiated = [m \in Managers |-> IF m = manager THEN 1 ELSE 0]
    /\ selection = "none"
    /\ runs = 1

\* a report built with the default timeout and concurrency
Init ==
    /\ manager \in Managers
    /\ concurrency = DEFAULT_CONCURRENCY
    /\ Fresh
    /\ Direct

\* a parser step left collect_all_data with an exception
RaiseLogged(exc) ==
    /\ pc' = pc
    /\ error' = exc

Raise(exc) ==
    /\ pc' = "failed"
    /\ error' = exc

ExitCodes == {0, 1}

\* -------------------------------------------------------- parse_adapters
\* controllers in the order the tool prints them
AdapterListings == {s \in SeqsUpTo(AdapterIds, Cardinality(AdapterIds)) : NoRepeat(s)}

\* sorted(adapters, key=lambda a: a['id'])
RECURSIVE SortedIds(_)
SortedIds(s) ==
    IF s = <<>> THEN <<>>
    ELSE LET m == CHOOSE i \in 1..Len(s) : \A j \in 1..Len(s) : IdRank(s[i]) <= IdRank(s[j])
             rest == [k \in 1..(Len(s) - 1) |-> IF k < m THEN s[k] ELSE s[k + 1]]
         IN  <<s[m]>> \o SortedIds(rest)

ExtendAdapters(ids) == adapters \o [i \in 1..Len(ids) |-> Adapter(ids[i])]

MdParseAdapters == ExtendAdapters(<<LINUX_RAID>>)
MegaCliParseAdapters(listing) == ExtendAdapters(SortedIds(listing))
OmreportParseAdapters(listing) == ExtendAdapters(SortedIds(listing))
StorCliParseAdapters(listing) == ExtendAdapters(listing)

ParseAdapters ==
    /\ pc = "start"
    /\ \E rc \in ExitCodes, listing \in AdapterListings :
        IF manager = "md"
        THEN /\ rc = 0 /\ listing = <<>>
             /\ adapters' = MdParseAdapters
             /\ pc' = "adapters"
             /\ UNCHANGED <<error, exit_status>>
        ELSE IF rc /= 0
        THEN /\ listing = <<>>
             /\ exit_status' = rc
             /\ Raise("RaidReportException")
             /\ UNCHANGED adapters
        ELSE /\ exit_status' = rc
             /\ adapters' = (CASE manager = "megacli" -> MegaCliParseAdapters(listing)
                               [] manager = "omreport" -> OmreportParseAdapters(listing)
                               [] OTHER -> StorCliParseAdapters(listing))
             /\ pc' = "adapters"
             /\ UNCHANGED error
    /\ UNCHANGED <<manager, arrays, phy_drives, log_drives, pd_listing, connects>>
    /\ UNCHANGED <<probe_vars, select_vars, document, connect, runs>>

\* ------------------------------------------------ parse_physical_drives
\* One drive block of a physical-drive listing, reduced to the fields the
\* parsers read. temp is None when the block has no 'Drive Temperature'
\* line. The last four fields are read by the md parser only: whether
\* /etc/mtab names a partition of the drive, whether <device>1 exists, and
\* what `timeout <t> mdadm --examine <device>` does for it.
NoExamine == [ret |-> 0, role |-> None, uuid |-> None]

ExamineOutcomes ==
    {[ret |-> r, role |-> None, uuid |-> None] : r \in {TIMEOUT_EXIT, 1, 0}}
    \cup {[ret |-> 0, role |-> Some(ro), uuid |-> u] :
            ro \in {"Active device 0", "spare"},
            u \in {None} \cup {Some(x) : x \in ArrayUuids}}

Blocks(m, adapterIds, states, errs, temps, spares, oss, parts, examines) ==
    [adapter_id : adapterIds, id : DriveIds(m), state : states, errs : errs,
     temp : temps, hotspare : spares, os : oss, part : parts, examine : examines]

\* blocks of healthy drives: what the linker claims need
LinkBlocks(m) ==
    IF m = "md"
    THEN Blocks(m, {LINUX_RAID}, {HealthyState(m)}, {0}, {None}, {FALSE}, {FALSE}, {FALSE},
                {e \in ExamineOutcomes : e.ret /= 0 \/ e.uuid /= None})
    ELSE Blocks(m, AdapterIds, {HealthyState(m)}, {0}, {Some(t) : t \in RawTemperatures},
                {FALSE}, {FALSE}, {FALSE}, {NoExamine})

LinkListings(m) ==
    {s \in SeqsUpTo(LinkBlocks(m), MaxDrives) :
        m = "md" => \A i, j \in 1..Len(s) : i /= j => s[i].id /= s[j].id}

\* one block with every combination of the health fields
HealthBlocks(m) ==
    IF m = "md"
    THEN Blocks(m, {LINUX_RAID}, RawStates(m), {0}, {None}, {FALSE}, BOOLEAN, BOOLEAN,
                ExamineOutcomes)
    ELSE Blocks(m, AdapterIds, RawStates(m), {0, 3},
                {None} \cup {Some(t) : t \in RawTemperatures}, BOOLEAN,
                {FALSE}, {FALSE}, {NoExamine})

HealthListings(m) == {<<b>> : b \in HealthBlocks(m)}

\* result of building one PhysicalDrive: the drive, or the exception raised
Built(d) == [exc |-> "none", drive |-> Some(d)]
Raised(e) == [exc |-> e, drive |-> None]

\* raid_megacli.py: status from the predictive failure count and the
\* firmware state; drive['Drive Temperature'] is subscripted
MegaCliStatusCountFirst(b) ==
    IF b.errs /= 0 THEN STATUS_FAILING
    ELSE IF ContainsBad(b.state) THEN STATUS_FAILED
    ELSE STATUS_GOOD

MegaCliStatus(b) ==
    IF ContainsBad(b.state) THEN STATUS_FAILED
    ELSE IF b.errs /= 0 THEN STATUS_FAILING
    ELSE STATUS_GOOD

MegaCliDrive(b) ==
    IF b.temp = None THEN Raised("KeyError")
    ELSE Built(PhysicalDrive(b.id, b.state, FirstWord(b.temp[1]), MegaCliStatus(b),
                             b.adapter_id, b.hotspare))

MegaCliKey(b) == b.id

\* raid_storcli.py: anything not 'Onln' is failed, error counters make an
\* online drive failing; drive['State']['Drive Temperature'] is subscripted
StorCliStatusCounting(b) ==
    IF b.state /= "Onln" THEN STATUS_FAILED ELSE b.errs

StorCliStatus(b) ==
    IF b.state /= "Onln" THEN STATUS_FAILED
    ELSE IF b.errs /= 0 THEN STATUS_FAILING
    ELSE STATUS_GOOD

StorCliDrive(b) ==
    IF b.temp = None THEN Raised("KeyError")
    ELSE Built(PhysicalDrive(StorCliDid(b.id), b.state, FirstWord(b.temp[1]), StorCliStatus(b),
                             b.adapter_id, b.hotspare))

StorCliKey(b) == b.id

\* raid_omreport.py: only 'Critical' is failed; temperature is never read
OmreportStatus(b) == IF b.state = "Critical" THEN STATUS_FAILED ELSE STATUS_GOOD

OmreportDrive(b) ==
    Built(PhysicalDrive(b.id, b.state, "", OmreportStatus(b), b.adapter_id, b.hotspare))

OmreportKey(b) == b.adapter_id \o b.id

\* raid_md.py: anything not 'running' is failed; temperature is ''
MdStatus(b) == IF b.state /= "running" THEN STATUS_FAILED ELSE STATUS_GOOD

MdDrive(b) == Built(PhysicalDrive(b.id, b.state, "", MdStatus(b), LINUX_RAID, FALSE))

MdKey(b) == b.id

\* the PhysicalDrive a parser builds from a block, and the key it stores
\* the drive under in self.phy_drives
BuildDrive(m, b) ==
    CASE m = "megacli" -> MegaCliDrive(b)
      [] m = "storcli" -> StorCliDrive(b)
      [] m = "omreport" -> OmreportDrive(b)
      [] OTHER -> MdDrive(b)

DriveKey(m, b) ==
    CASE m = "megacli" -> MegaCliKey(b)
      [] m = "storcli" -> StorCliKey(b)
      [] m = "omreport" -> OmreportKey(b)
      [] OTHER -> MdKey(b)

\* the loop `for drive in drives: ... self.phy_drives[key] = pdrive`: the
\* table after the blocks from position i on, and the exception that ended
\* the loop early
RECURSIVE StoreDrives(_, _, _, _)
StoreDrives(m, blocks, i, table) ==
    IF i > Len(blocks) THEN [table |-> table, exc |-> "none"]
    ELSE LET r == BuildDrive(m, blocks[i])
         IN  IF r.exc /= "none" THEN [table |-> table, exc |-> r.exc]
             ELSE StoreDrives(m, blocks, i + 1,
                              DictSet(table, DriveKey(m, blocks[i]), r.drive[1]))

\* raid_storcli.py: drives = defaultdict(dict), keyed by the JSON key
\* 'Drive /c<ctrl>/e<encl>/s<slot>'; a repeated key replaces the entry
RECURSIVE StorCliCollect(_, _, _)
StorCliCollect(listing, i, drives) ==
    IF i > Len(listing) THEN [k \in 1..Len(drives) |-> drives[k].obj]
    ELSE StorCliCollect(listing, i + 1,
                        DictSet(drives, "/c" \o listing[i].adapter_id \o "/" \o listing[i].id,
                                listing[i]))

\* raid_omreport.py: one `storage pdisk controller=<id>` query per parsed
\* adapter, in the order of self.adapters; each block gets that adapter's id
RECURSIVE OmreportCollect(_, _)
OmreportCollect(listing, i) ==
    IF i > Len(adapters) THEN <<>>
    ELSE SelectSeq(listing, LAMBDA b : b.adapter_id = adapters[i].adapter_id)
         \o OmreportCollect(listing, i + 1)

\* raid_md.py: lsblk lines of drives that hold no mounted partition
MdCollect(listing) == SelectSeq(listing, LAMBDA b : ~b.os)

\* raid_md.py: device_path of a drive, with the partition suffix
MdDevicePath(b) == "/dev/" \o b.id \o (IF b.part THEN "1" ELSE "")

\* raid_md.py: devices[device_path] = drive_id, for every drive kept
RECURSIVE MdDevices(_, _, _)
MdDevices(blocks, i, devices) ==
    IF i > Len(blocks) THEN devices
    ELSE MdDevices(blocks, i + 1,
                   DictSet(devices, MdDevicePath(blocks[i]),
                           [drive_id |-> blocks[i].id, examine |-> blocks[i].examine]))

\* raid_md.examine_physical_drive: (device_path, {}) unless the exit status
\* is 0, else (device_path, the key: value lines of the output)
examine_physical_drive(device_path, outcome) ==
    IF outcome.ret /= 0
    THEN <<device_path, EmptyData>>
    ELSE <<device_path, [role |-> outcome.role, uuid |-> outcome.uuid]>>

\* pool.map(examine_physical_drive, devices.keys()): one result per device,
\* in the order of the devices
MdExamineAll(devices) ==
    [i \in 1..Len(devices) |-> examine_physical_drive(devices[i].key, devices[i].obj.examine)]

\* raid_md.py: the loop over the examine results
MdApplyResultKeepingStatus(pdrive, device_out) ==
    IF device_out /= EmptyData
    THEN [pdrive EXCEPT !.hotspare = (device_out.role = Some("spare")),
                        !.data = device_out]
    ELSE pdrive

MdApplyResult(pdrive, device_out) ==
    IF device_out /= EmptyData
    THEN [pdrive EXCEPT !.hotspare = (device_out.role = Some("spare")),
                        !.data = device_out]
    ELSE [pdrive EXCEPT !.status = STATUS_FAILING]

RECURSIVE MdApplyResults(_, _, _, _)
MdApplyResults(res, devices, i, table) ==
    IF i > Len(res) THEN table
    ELSE LET drive_id == devices[DictIndex(devices, res[i][1])].obj.drive_id
             k == DictIndex(table, drive_id)
         IN  MdApplyResults(res, devices, i + 1,
                            [table EXCEPT ![k].obj = MdApplyResult(table[k].obj, res[i][2])])

\* the drive blocks parse_physical_drives goes through
CollectDrives(m, listing) ==
    CASE m = "storcli" -> StorCliCollect(listing, 1, <<>>)
      [] m = "omreport" -> OmreportCollect(listing, 1)
      [] m = "md" -> MdCollect(listing)
      [] OTHER -> listing

\* the table parse_physical_drives leaves, and the exception it raised
ParsedDrives(m, listing) ==
    LET blocks == CollectDrives(m, listing)
        stored == StoreDrives(m, blocks, 1, phy_drives)
        devices == MdDevices(blocks, 1, <<>>)
    IN  IF m = "md" /\ stored.exc = "none"
        THEN [table |-> MdApplyResults(MdExamineAll(devices), devices, 1, stored.table),
              exc |-> "none"]
        ELSE stored

ParsePhysicalDrivesFrom(listings) ==
    /\ pc = "adapters"
    /\ \/ /\ manager = "omreport" /\ adapters = <<>>
          /\ Raise("RaidReportException")
          /\ UNCHANGED <<phy_drives, pd_listing, exit_status>>
       \/ /\ ~(manager = "omreport" /\ adapters = <<>>)
          /\ \E rc \in ExitCodes :
                /\ rc /= 0
                /\ exit_status' = rc
                /\ Raise("RaidReportException")
                /\ UNCHANGED <<phy_drives, pd_listing>>
       \/ /\ ~(manager = "omreport" /\ adapters = <<>>)
          /\ \E listing \in listings :
                LET r == ParsedDrives(manager, listing)
                IN  /\ exit_status' = 0
                    /\ phy_drives' = r.table
                    /\ pd_listing' = CollectDrives(manager, listing)
                    /\ IF r.exc = "none"
                       THEN pc' = "physical" /\ UNCHANGED error
                       ELSE Raise(r.exc)
    /\ UNCHANGED <<manager, arrays, adapters, log_drives, connects>>
    /\ UNCHANGED <<probe_vars, select_vars, document, connect, runs>>

ParsePhysicalDrives == ParsePhysicalDrivesFrom(LinkListings(manager))

\* ------------------------------------------------- parse_logical_drives
\* One block of a logical-drive listing: the controller it is printed
\* under, the member drive ids printed for it ('Device Id' lines, 'PDs for
\* VD' entries, the 'ID' lines of omreport's per-vdisk query whose exit
\* status is rc). For md a block is the `mdadm --detail <array>` of one
\* array of self.arrays: its exit status and its 'UUID'.
MemberLists(m) == {s \in SeqsUpTo(DriveIds(m), Cardinality(DriveIds(m))) : NoRepeat(s)}

LdBlocks(m) ==
    IF m = "md"
    THEN [adapter_id : {LINUX_RAID}, members : {<<>>}, uuid : ArrayUuids, rc : ExitCodes]
    ELSE [adapter_id : AdapterIds, members : MemberLists(m), uuid : {""},
          rc : IF m = "omreport" THEN ExitCodes ELSE {0}]

LdListings(m) ==
    IF m = "md"
    THEN [1..Len(arrays) -> LdBlocks(m)]
    ELSE SeqsUpTo(LdBlocks(m), MaxLogDrives)

\* a controller numbers its virtual drives from 0 in the order it prints them
VdId(listing, i) ==
    ToString(Cardinality({j \in 1..(i - 1) : listing[j].adapter_id = listing[i].adapter_id}))

Numbered(listing) ==
    [i \in 1..Len(listing) |->
        [adapter_id |-> listing[i].adapter_id, id |-> VdId(listing, i),
         members |-> listing[i].members, uuid |-> listing[i].uuid, rc |-> listing[i].rc]]

\* raid_storcli.py: vds = defaultdict(dict) keyed by the virtual drive number
\* alone; a later controller's entry of the same number replaces the earlier
RECURSIVE StorCliVds(_, _, _)
StorCliVds(listing, i, vds) ==
    IF i > Len(listing) THEN [k \in 1..Len(vds) |-> vds[k].obj]
    ELSE StorCliVds(listing, i + 1, DictSet(vds, listing[i].id, listing[i]))

\* raid_omreport.py: one `storage vdisk controller=<id>` query per adapter
RECURSIVE OmreportVdisks(_, _)
OmreportVdisks(listing, i) ==
    IF i > Len(adapters) THEN <<>>
    ELSE SelectSeq(listing, LAMBDA b : b.adapter_id = adapters[i].adapter_id)
         \o OmreportVdisks(listing, i + 1)

\* raid_md.py: pdrives_by_array_uuid[uuid], the ids of the drives that are
\* no hot spare and whose examined data has that 'Array UUID'
MdMembersWithSpares(uuid) ==
    LET members == SelectSeq(phy_drives, LAMBDA e : e.obj.data.uuid = Some(uuid))
    IN  [i \in 1..Len(members) |-> members[i].key]

MdMembers(uuid) ==
    LET members == SelectSeq(phy_drives,
                             LAMBDA e : ~e.obj.hotspare /\ e.obj.data.uuid = Some(uuid))
    IN  [i \in 1..Len(members) |-> members[i].key]

\* the logical drive built from one block
MegaCliLogicalDrive(b) == LogicalDrive(b.id, "Optimal", b.adapter_id, b.members, FALSE)
StorCliLogicalDrive(b) == LogicalDrive(b.id, "Optl", b.adapter_id, b.members, FALSE)
OmreportLogicalDrive(b) ==
    LogicalDrive(b.id, "Ok (Ready)", b.adapter_id,
                 [i \in 1..Len(b.members) |-> b.adapter_id \o b.members[i]], FALSE)
MdLogicalDrive(arr, b) ==
    LogicalDrive(arr, "clean", LINUX_RAID, MdMembers(b.uuid), FALSE)

\* the loop that appends one LogicalDrive per block; omreport and md run a
\* command per block and raise when it fails
RECURSIVE AppendLogicalDrives(_, _, _, _)
AppendLogicalDrives(m, blocks, i, drives) ==
    IF i > Len(blocks) THEN [drives |-> drives, exc |-> "none"]
    ELSE LET b == blocks[i]
         IN  IF m \in {"omreport", "md"} /\ b.rc /= 0
             THEN [drives |-> drives, exc |-> "RaidReportException"]
             ELSE AppendLogicalDrives(m, blocks, i + 1,
                    Append(drives,
                           CASE m = "megacli" -> MegaCliLogicalDrive(b)
                             [] m = "storcli" -> StorCliLogicalDrive(b)
                             [] m = "omreport" -> OmreportLogicalDrive(b)
                             [] OTHER -> MdLogicalDrive(arrays[i], b)))

\* the blocks parse_logical_drives goes through
LdCommands(m, listing) ==
    LET numbered == Numbered(listing)
    IN  CASE m = "storcli" -> StorCliVds(numbered, 1, <<>>)
          [] m = "omreport" -> OmreportVdisks(numbered, 1)
          [] OTHER -> numbered

\* exit status of the last command run for the blocks: the loop stops at
\* the first command that fails
LastExit(blocks) ==
    IF \E i \in 1..Len(blocks) : blocks[i].rc /= 0
    THEN blocks[CHOOSE i \in 1..Len(blocks) :
                    blocks[i].rc /= 0 /\ \A j \in 1..(i - 1) : blocks[j].rc = 0].rc
    ELSE 0

ParsedLogicalDrives(m, listing) == AppendLogicalDrives(m, LdCommands(m, listing), 1, log_drives)

ParseLogicalDrives ==
    /\ pc = "physical"
    /\ \/ /\ manager = "omreport" /\ adapters = <<>>
          /\ Raise("RaidReportException")
          /\ UNCHANGED <<log_drives, exit_status>>
       \/ /\ manager /= "md"
          /\ ~(manager = "omreport" /\ adapters = <<>>)
          /\ \E rc \in ExitCodes :
                /\ rc /= 0
                /\ exit_status' = rc
                /\ Raise("RaidReportException")
                /\ UNCHANGED log_drives
       \/ /\ ~(manager = "omreport" /\ adapters = <<>>)
          /\ \E listing \in LdListings(manager) :
                LET r == ParsedLogicalDrives(manager, listing)
                IN  /\ exit_status' = LastExit(LdCommands(manager, listing))
                    /\ log_drives' = r.drives
                    /\ IF r.exc = "none"
                       THEN pc' = "logical" /\ UNCHANGED error
                       ELSE Raise(r.exc)
    /\ UNCHANGED <<manager, arrays, adapters, phy_drives, pd_listing, connects>>
    /\ UNCHANGED <<probe_vars, select_vars, document, connect, runs>>

\* ----------------------------------------------------------- connect_data
\* The report's three collections while connect_data runs, and the
\* exception that ended it.
Graph(as, pds, lds) == [adapters |-> as, phy_drives |-> pds, log_drives |-> lds, exc |-> "none"]

\* adapter_map[adapter_id]: the last adapter stored under that id, 0 for a
\* missing key
AdapterMapDefaulting(as, adapter_id) ==
    LET hits == {i \in 1..Len(as) : as[i].adapter_id = adapter_id}
    IN  IF hits = {} THEN (IF as = <<>> THEN 0 ELSE 1)
        ELSE CHOOSE i \in hits : \A j \in hits : j <= i

AdapterMap(as, adapter_id) ==
    LET hits == {i \in 1..Len(as) : as[i].adapter_id = adapter_id}
    IN  IF hits = {} THEN 0 ELSE CHOOSE i \in hits : \A j \in hits : j <= i

\* first loop: every adapter gets empty physical_drives and logical_drives
ResetAdaptersOnce(g) ==
    [g EXCEPT !.adapters = [i \in 1..Len(g.adapters) |->
        IF g.adapters[i].physical_drives = None
        THEN [g.adapters[i] EXCEPT !.physical_drives = Some(<<>>), !.logical_drives = Some(<<>>)]
        ELSE g.adapters[i]]]

ResetAdapters(g) ==
    [g EXCEPT !.adapters = [i \in 1..Len(g.adapters) |->
        [g.adapters[i] EXCEPT !.physical_drives = Some(<<>>), !.logical_drives = Some(<<>>)]]]

\* [self.phy_drives[d] for d in drive.phy_drive_ids]: the drives the ids
\* name, or KeyError for an id that is no key of the table
ResolveMembersSkipping(table, ids) ==
    LET present == SelectSeq(ids, LAMBDA d : DictHas(table, d))
    IN  [exc |-> "none", refs |-> [i \in 1..Len(present) |-> DictIndex(table, present[i])]]

ResolveMembers(table, ids) ==
    IF \E i \in 1..Len(ids) : ~DictHas(table, ids[i])
    THEN [exc |-> "KeyError", refs |-> <<>>]
    ELSE [exc |-> "none", refs |-> [i \in 1..Len(ids) |-> DictIndex(table, ids[i])]]

\* second loop, from logical drive k on
RECURSIVE LinkLogicalDrives(_, _)
LinkLogicalDrives(g, k) ==
    IF k > Len(g.log_drives) THEN g
    ELSE LET drive == g.log_drives[k]
             a == AdapterMap(g.adapters, drive.adapter_id)
             r == ResolveMembers(g.phy_drives, drive.phy_drive_ids)
         IN  IF a = 0 THEN [g EXCEPT !.exc = "KeyError"]
             ELSE IF r.exc /= "none"
             THEN [g EXCEPT !.log_drives[k].adapter = Some(a), !.exc = r.exc]
             ELSE LinkLogicalDrives(
                    [g EXCEPT
                        !.log_drives[k].adapter = Some(a),
                        !.log_drives[k].physical_drives = Some(r.refs),
                        !.phy_drives = [p \in 1..Len(g.phy_drives) |->
                            IF p \in Range(r.refs)
                            THEN [g.phy_drives[p] EXCEPT !.obj.logical_drive = Some(k)]
                            ELSE g.phy_drives[p]],
                        !.adapters[a].logical_drives = ListAppend(@, k)],
                    k + 1)

\* third loop, from the k-th value of phy_drives on
RECURSIVE LinkPhysicalDrives(_, _)
LinkPhysicalDrives(g, k) ==
    IF k > Len(g.phy_drives) THEN g
    ELSE LET a == AdapterMap(g.adapters, g.phy_drives[k].obj.adapter_id)
         IN  IF a = 0 THEN [g EXCEPT !.exc = "KeyError"]
             ELSE LinkPhysicalDrives(
                    [g EXCEPT !.phy_drives[k].obj.adapter = Some(a),
                              !.adapters[a].physical_drives = ListAppend(@, k)],
                    k + 1)

\* fourth loop: the drives of each adapter that have no logical drive
SpareDrivesInverted(g, a) ==
    SelectSeq(g.adapters[a].physical_drives[1],
              LAMBDA p : g.phy_drives[p].obj.logical_drive /= None)

SpareDrives(g, a) ==
    SelectSeq(g.adapters[a].physical_drives[1],
              LAMBDA p : g.phy_drives[p].obj.logical_drive = None)

ComputeSpares(g) ==
    [g EXCEPT !.adapters = [a \in 1..Len(g.adapters) |->
        [g.adapters[a] EXCEPT !.spare_physical_drives = Some(SpareDrives(g, a))]]]

\* RaidReport.post_process: the method is empty and no parser overrides it
post_process(g) == g

\* `if connect:` of collect_all_data
ShouldConnectAlways(flag) == TRUE

ShouldConnect(flag) == flag

ConnectReplacingIds(g) ==
    LET g1 == LinkLogicalDrives(ResetAdapters(g), 1)
        g2 == IF g1.exc = "none" THEN LinkPhysicalDrives(g1, 1) ELSE g1
        g3 == IF g2.exc = "none" THEN ComputeSpares(g2) ELSE g2
    IN  [g3 EXCEPT !.log_drives = [l \in 1..Len(g3.log_drives) |->
            IF g3.log_drives[l].physical_drives /= None
            THEN [g3.log_drives[l] EXCEPT !.phy_drive_ids = <<>>]
            ELSE g3.log_drives[l]]]

ConnectSparesFirst(g) ==
    LET g1 == ComputeSpares(LinkPhysicalDrives(ResetAdapters(g), 1))
    IN  IF g1.exc = "none" THEN LinkLogicalDrives(g1, 1) ELSE g1

connect_data(g) ==
    LET g1 == LinkLogicalDrives(ResetAdapters(g), 1)
        g2 == IF g1.exc = "none" THEN LinkPhysicalDrives(g1, 1) ELSE g1
    IN  IF g2.exc = "none" THEN ComputeSpares(g2) ELSE g2

ConnectData ==
    /\ pc \in {"logical", "connected"}
    /\ connects < MaxConnects
    /\ pc = "logical" => ShouldConnect(connect)
    /\ LET parsed == Graph(adapters, phy_drives, log_drives)
           g == connect_data(IF pc = "logical" THEN post_process(parsed) ELSE parsed)
       IN  /\ adapters' = g.adapters
           /\ phy_drives' = g.phy_drives
           /\ log_drives' = g.log_drives
           /\ IF g.exc = "none"
              THEN pc' = "connected" /\ connects' = connects + 1 /\ UNCHANGED error
              ELSE Raise(g.exc) /\ UNCHANGED connects
    /\ UNCHANGED <<manager, arrays, pd_listing, exit_status>>
    /\ UNCHANGED <<probe_vars, select_vars, document, connect, runs>>

\* ---------------------------------------------------------- the next run
\* The process constructs another report of the same class once the
\* collection of the current one has ended. The new instance has its own
\* executable, timeout and concurrency; adapters, phy_drives and log_drives
\* are attributes of the class RaidReport that no constructor rebinds, and
\* MdReport.arrays is an attribute of the class that _check_array_list
\* appends to.
NewRun ==
    /\ runs < MaxRuns
    /\ selection = "none"
    /\ pc \in {"physical", "logical", "connected", "failed"}
    /\ runs' = runs + 1
    /\ instantiated' = [instantiated EXCEPT ![manager] = @ + 1]
    /\ \E a \in ArrayLists : arrays' = IF manager = "md" THEN arrays \o a ELSE arrays
    /\ pc' = "start"
    /\ error' = "none"
    /\ connects' = 0
    /\ exit_status' = 0
    /\ pd_listing' = <<>>
    /\ UNCHANGED <<manager, adapters, phy_drives, log_drives, probe_vars,
                   files, on_path, imported, scan, considered, selection, document, connect>>

\* ----------------------------------------------------------- automatic_cli
\* An entry of the package directory; its name is prefix \o stem \o ext.
DirEntry(prefix, stem, ext) == [prefix |-> prefix, stem |-> stem, ext |-> ext]

PackageFiles ==
    {DirEntry("raid_", m, ".py") : m \in Managers} \cup {DirEntry("", "raid", ".py")}

\* os.listdir returns the entries in arbitrary order
DirListings ==
    {s \in SeqsUpTo(PackageFiles, Cardinality(PackageFiles)) :
        Len(s) = Cardinality(PackageFiles) /\ NoRepeat(s)}

\* f.startswith('raid_') and f.endswith('.py')
IsRaidModule(f) == f.prefix = "raid_" /\ f.ext = ".py"

\* the manager of the class the module raid_<stem> names as `report`
ModuleReport(f) == f.stem

\* the module raid_<stem> has a `report` attribute: the four parsers of the
\* package end with `report = <class>`
HasReport(f) == f.stem \in Managers

\* RaidReport.find_cli_path: TRUE when it returns a path, FALSE when it
\* raises RaidReportException
find_cli_path_unchecked(m) == TRUE

find_cli_path(m) == m \in on_path

\* what `mdadm --detail --scan` does: its exit status and the arrays it lists
ScanOutcomes ==
    {[rc |-> 1, out |-> <<>>]} \cup {[rc |-> 0, out |-> a] : a \in {<<>>} \cup ArrayLists}

\* MdReport._check_array_list: "arrays" when it fills self.arrays, else the
\* reason it raises RaidReportException
check_array_list_lenient(o) == IF o.rc /= 0 THEN "failed" ELSE "arrays"

check_array_list(o) ==
    IF o.rc /= 0 THEN "failed" ELSE IF o.out = <<>> THEN "empty" ELSE "arrays"

\* module.report(): TRUE when the constructor returns
Instantiates(m, o) == find_cli_path(m) /\ (m = "md" => check_array_list(o) = "arrays")

\* one iteration of the loop over os.listdir
Consider ==
    /\ selection = "running"
    /\ considered < Len(files)
    /\ LET f == files[considered + 1]
           m == ModuleReport(f)
       IN  \/ /\ ~IsRaidModule(f)
              /\ considered' = considered + 1
              /\ UNCHANGED <<manager, arrays, imported, scan, instantiated, selection, runs>>
           \/ /\ IsRaidModule(f)
              /\ m \notin imported
              /\ considered' = considered + 1
              /\ UNCHANGED <<manager, arrays, imported, scan, instantiated, selection, runs>>
           \/ /\ IsRaidModule(f)
              /\ HasReport(f)
              /\ \E o \in ScanOutcomes :
                    /\ (m /= "md" \/ ~find_cli_path(m)) => o = [rc |-> 0, out |-> <<>>]
                    /\ imported' = imported \cup {m}
                    /\ instantiated' = [instantiated EXCEPT ![m] = @ + 1]
                    /\ scan' = IF m = "md" /\ find_cli_path(m) THEN check_array_list(o) ELSE scan
                    /\ IF Instantiates(m, o)
                       THEN /\ manager' = m
                            /\ arrays' = arrays \o o.out
                            /\ selection' = "returned"
                            /\ runs' = runs + 1
                            /\ UNCHANGED considered
                       ELSE /\ considered' = considered + 1
                            /\ UNCHANGED <<manager, arrays, selection, runs>>
    /\ UNCHANGED <<pc, error, adapters, phy_drives, log_drives, pd_listing, connects,
                   probe_vars, files, on_path, exit_status, document, connect>>

\* one iteration of the loop for a module that imports and has no `report`:
\* module.report() raises AttributeError, and so does module.report.__name__
\* in the handler of that exception
ConsiderReportless ==
    /\ selection = "running"
    /\ considered < Len(files)
    /\ LET f == files[considered + 1]
       IN  /\ IsRaidModule(f)
           /\ ~HasReport(f)
           /\ imported' = imported \cup {f.stem}
    /\ selection' = "raised"
    /\ error' = "AttributeError"
    /\ UNCHANGED <<manager, arrays, pc, adapters, phy_drives, log_drives, pd_listing, connects,
                   probe_vars, files, on_path, scan, considered, instantiated, runs,
                   exit_status, document, connect>>

\* the loop ended without a return
Exhausted ==
    /\ selection = "running"
    /\ considered = Len(files)
    /\ selection' = "raised"
    /\ error' = "RaidReportException"
    /\ UNCHANGED <<manager, arrays, pc, adapters, phy_drives, log_drives, pd_listing, connects,
                   probe_vars, files, on_path, imported, scan, considered, instantiated, runs,
                   exit_status, document, connect>>

\* --------------------------------------------------------- probe batches
\* MdReport.parse_physical_drives and SmartReport.collect_data at the grain
\* of the pool: pool.map hands the items to at most `processes` workers, a
\* worker runs one probe at a time, and the caller goes on when every probe
\* has returned.
Task(item) == [item |-> item, st |-> "queued", hung |-> FALSE, outcome |-> None]

\* what `timeout <t> smartctl --json=c --all <device>` does: its exit status
\* and its output ("" none, "json" a JSON document, "garbage" anything else)
SmartOutcomes ==
    {[ret |-> TIMEOUT_EXIT, out |-> ""]}
    \cup [ret : {0, 4}, out : {"json", "garbage", ""}]

\* what `timeout <t> ls <path>` does: 2 is permission denied, 137 is ls
\* ended by SIGKILL
NfsOutcomes == [ret : {0, 2, TIMEOUT_EXIT, 137}, out : {""}]

ProbeOutcomes(k) ==
    CASE k = "examine" -> ExamineOutcomes
      [] k = "smart" -> SmartOutcomes
      [] OTHER -> NfsOutcomes

\* how the command of a probe ends: a command that hangs is killed by
\* timeout(1), which then exits with 124; any other command exits by itself
CommandEndsUnsupervised(k, hung) ==
    IF hung THEN {} ELSE {o \in ProbeOutcomes(k) : o.ret /= TIMEOUT_EXIT}

CommandEnds(k, hung) == {o \in ProbeOutcomes(k) : (o.ret = TIMEOUT_EXIT) <=> hung}

\* disk_smartctl.check_smart: the bits of the exit status, and the parsed
\* output unless the probe timed out or printed nothing
ErrorBits(ret) == {bit \in 0..7 : (ret \div (2 ^ bit)) % 2 = 1}

SmartRaises(outcome) == outcome.ret /= TIMEOUT_EXIT /\ outcome.out = "garbage"

check_smart(device, outcome) ==
    IF outcome.ret /= TIMEOUT_EXIT /\ outcome.out /= ""
    THEN <<device, Some([device |-> device, errors |-> ErrorBits(outcome.ret)])>>
    ELSE <<device, None>>

\* stale_nfs.check_stale_nfs: (path, ret >= 124)
check_stale_nfs_on_timeout(path, outcome) == <<path, outcome.ret = TIMEOUT_EXIT>>

check_stale_nfs(path, outcome) == <<path, outcome.ret >= TIMEOUT_EXIT>>

\* the function pool.map applies to an item
ProbeResult(k, item, outcome) ==
    CASE k = "examine" -> examine_physical_drive(item, outcome)
      [] k = "smart" -> check_smart(item, outcome)
      [] OTHER -> check_stale_nfs(item, outcome)

\* the value pool.map returns: one result per item, in the order of the
\* items, each the result of the probe run on that item
PoolMapByCompletion(k, ts) ==
    [i \in 1..Len(ts) |-> ProbeResult(k, ts[i].item, ts[Len(ts) + 1 - i].outcome[1])]

PoolMap(k, ts) == [i \in 1..Len(ts) |-> ProbeResult(k, ts[i].item, ts[i].outcome[1])]

\* pool.map raises what a probe raised
PoolMapRaises(k, ts) == k = "smart" /\ \E i \in 1..Len(ts) : SmartRaises(ts[i].outcome[1])

\* disk_smartctl.py: the loop that appends one entry per result to self.disks
SmartDisksSkipping(res) ==
    LET kept == SelectSeq(res, LAMBDA r : r[2] /= None)
    IN  [i \in 1..Len(kept) |-> kept[i][2][1]]

SmartDisks(res) ==
    [i \in 1..Len(res) |->
        IF res[i][2] = None THEN [device |-> res[i][1], errors |-> {-1}] ELSE res[i][2][1]]

\* lsblk lines of the md probe batch; what --examine does is decided when
\* the probe runs
ProbeBlocks ==
    Blocks("md", {LINUX_RAID}, {"running", "offline"}, {0}, {None}, {FALSE}, BOOLEAN, BOOLEAN,
           {NoExamine})

ProbeListings ==
    {s \in SeqsUpTo(ProbeBlocks, MaxDrives) :
        \A i, j \in 1..Len(s) : i /= j => s[i].id /= s[j].id}

\* NFS mount points of /etc/mtab
MountPoints == {"/mnt/a", "/mnt/b"}
MountLists == {s \in SeqsUpTo(MountPoints, MaxMounts) : NoRepeat(s)}

\* stale_nfs.py: self.mounts[mount_point] = is_stale for every result
RECURSIVE NfsApplyResults(_, _, _)
NfsApplyResults(res, i, table) ==
    IF i > Len(res) THEN table
    ELSE NfsApplyResults(res, i + 1, DictSet(table, res[i][1], res[i][2]))

\* devices smartctl --scan reports
SmartDevices == {"/dev/sda", "/dev/sdb"}
SmartDeviceLists == {s \in SeqsUpTo(SmartDevices, MaxDrives) : NoRepeat(s)}

\* raid_md.py up to pool.map: the table is filled from lsblk and the pool
\* is created
MdBeginExamine ==
    /\ manager = "md" /\ pc = "adapters" /\ batch = "idle"
    /\ \/ /\ exit_status' = 1
          /\ Raise("RaidReportException")
          /\ UNCHANGED <<phy_drives, pd_listing, pool, batch, kind, tasks>>
       \/ \E listing \in ProbeListings :
            LET blocks == MdCollect(listing)
                devices == MdDevices(blocks, 1, <<>>)
            IN  /\ exit_status' = 0
                /\ phy_drives' = StoreDrives("md", blocks, 1, phy_drives).table
                /\ pd_listing' = blocks
                /\ tasks' = [i \in 1..Len(devices) |-> Task(devices[i].key)]
                /\ pool' = [state |-> "open", processes |-> concurrency]
                /\ batch' = "mapping"
                /\ kind' = "examine"
                /\ UNCHANGED <<pc, error>>
    /\ UNCHANGED <<manager, arrays, adapters, log_drives, connects, concurrency, results, disks>>
    /\ UNCHANGED <<mounts, select_vars, document, connect, runs>>

\* disk_smartctl.py up to pool.map: the scan, self.disks = [], the pool
SmartBegin ==
    /\ batch = "idle"
    /\ \/ /\ batch' = "raised"
          /\ UNCHANGED <<pool, kind, tasks, disks>>
       \/ \E devices \in SmartDeviceLists :
            /\ tasks' = [i \in 1..Len(devices) |-> Task(devices[i])]
            /\ disks' = <<>>
            /\ pool' = [state |-> "open", processes |-> concurrency]
            /\ batch' = "mapping"
            /\ kind' = "smart"
    /\ UNCHANGED <<manager, arrays, pc, error, adapters, phy_drives, log_drives, pd_listing,
                   connects, concurrency, results>>
    /\ UNCHANGED <<mounts, select_vars, document, connect, runs, exit_status>>

\* StaleNFSReport(timeout, concurrency) and its collect_data up to
\* pool.map: the mounts of /etc/mtab, the pool
NfsBegin ==
    /\ batch = "idle"
    /\ \E ms \in MountLists :
        /\ mounts' = [i \in 1..Len(ms) |-> [key |-> ms[i], obj |-> FALSE]]
        /\ tasks' = [i \in 1..Len(ms) |-> Task(ms[i])]
    /\ pool' = [state |-> "open", processes |-> concurrency]
    /\ batch' = "mapping"
    /\ kind' = "nfs"
    /\ UNCHANGED <<manager, arrays, pc, error, adapters, phy_drives, log_drives, pd_listing,
                   connects, concurrency, results, disks>>
    /\ UNCHANGED <<select_vars, document, connect, runs, exit_status>>

Running == {i \in 1..Len(tasks) : tasks[i].st = "running"}
Queued == {i \in 1..Len(tasks) : tasks[i].st = "queued"}

\* workers of the pool that run no probe
FreeWorkersPerItem == Len(tasks) - Cardinality(Running)

FreeWorkers == pool.processes - Cardinality(Running)

\* a free worker takes the next item and starts its command, which will
\* either exit by itself or hang
StartProbe ==
    /\ batch = "mapping"
    /\ Queued /= {}
    /\ FreeWorkers > 0
    /\ LET i == CHOOSE q \in Queued : \A r \in Queued : q <= r
       IN  \E h \in BOOLEAN : tasks' = [tasks EXCEPT ![i].st = "running", ![i].hung = h]
    /\ UNCHANGED <<manager, arrays, pc, error, adapters, phy_drives, log_drives, pd_listing,
                   connects, concurrency, pool, batch, kind, results, disks>>
    /\ UNCHANGED <<mounts, select_vars, document, connect, runs, exit_status>>

\* a probe ends: the command exited, or timeout(1) killed it
FinishProbe ==
    /\ batch = "mapping"
    /\ \E i \in Running :
        \E outcome \in CommandEnds(kind, tasks[i].hung) :
        tasks' = [tasks EXCEPT ![i].st = "done", ![i].outcome = Some(outcome)]
    /\ UNCHANGED <<manager, arrays, pc, error, adapters, phy_drives, log_drives, pd_listing,
                   connects, concurrency, pool, batch, kind, results, disks>>
    /\ UNCHANGED <<mounts, select_vars, document, connect, runs, exit_status>>

AllDone == \A i \in 1..Len(tasks) : tasks[i].st = "done"

\* raid_md.py after pool.map: the loop over the results, pool.close()
MdCollectResults ==
    /\ batch = "mapping" /\ kind = "examine" /\ AllDone
    /\ results' = PoolMap(kind, tasks)
    /\ phy_drives' = MdApplyResults(results', MdDevices(pd_listing, 1, <<>>), 1, phy_drives)
    /\ pool' = [pool EXCEPT !.state = "closed"]
    /\ batch' = "collected"
    /\ pc' = "physical"
    /\ UNCHANGED <<manager, arrays, error, adapters, log_drives, pd_listing, connects,
                   concurrency, kind, tasks, disks>>
    /\ UNCHANGED <<mounts, select_vars, document, connect, runs, exit_status>>

\* disk_smartctl.py after pool.map: the loop over the results, pool.close();
\* an exception of a probe leaves collect_data before either
\* stale_nfs.py after pool.map: the loop over the results, pool.close()
NfsCollect ==
    /\ batch = "mapping" /\ kind = "nfs" /\ AllDone
    /\ results' = PoolMap(kind, tasks)
    /\ mounts' = NfsApplyResults(results', 1, mounts)
    /\ pool' = [pool EXCEPT !.state = "closed"]
    /\ batch' = "collected"
    /\ UNCHANGED <<manager, arrays, pc, error, adapters, phy_drives, log_drives, pd_listing,
                   connects, concurrency, kind, tasks, disks>>
    /\ UNCHANGED <<select_vars, document, connect, runs, exit_status>>

SmartCollect ==
    /\ batch = "mapping" /\ kind = "smart" /\ AllDone
    /\ IF PoolMapRaises(kind, tasks)
       THEN /\ batch' = "raised"
            /\ UNCHANGED <<results, disks, pool>>
       ELSE /\ results' = PoolMap(kind, tasks)
            /\ disks' = SmartDisks(results')
            /\ pool' = [pool EXCEPT !.state = "closed"]
            /\ batch' = "collected"
    /\ UNCHANGED <<manager, arrays, pc, error, adapters, phy_drives, log_drives, pd_listing,
                   connects, concurrency, kind, tasks>>
    /\ UNCHANGED <<mounts, select_vars, document, connect, runs, exit_status>>

\* ---------------------------------------------------------- specification
\* One collection run of a report: collect_all_data, then connect_data
\* again on the same report.
Next ==
    \/ ParseAdapters
    \/ ParsePhysicalDrives
    \/ ParseLogicalDrives
    \/ ConnectData

Spec == Init /\ [][Next]_vars

\* parse_physical_drives applied to a listing of one drive block with every
\* combination of the fields that decide its status
ParseOneDrive == ParsePhysicalDrivesFrom(HealthListings(manager))

NextHealth ==
    \/ ParseAdapters
    \/ ParseOneDrive

SpecHealth == Init /\ [][NextHealth]_vars

\* a software-RAID report and a SMART report built with a pool size the
\* caller chose, each running its probe batch
InitProbe ==
    /\ manager = "md"
    /\ concurrency \in 1..MaxConcurrency
    /\ Fresh
    /\ Direct

NextProbe ==
    \/ ParseAdapters
    \/ MdBeginExamine
    \/ SmartBegin
    \/ NfsBegin
    \/ StartProbe
    \/ FinishProbe
    \/ MdCollectResults
    \/ SmartCollect
    \/ NfsCollect

SpecProbe == InitProbe /\ [][NextProbe]_vars

\* the same with the scheduling of the pool: a free worker takes a waiting
\* item, a running command ends (by itself or killed by timeout(1)), and
\* the caller goes on when pool.map returns
SpecProbeFair ==
    /\ SpecProbe
    /\ WF_vars(StartProbe)
    /\ WF_vars(FinishProbe)
    /\ WF_vars(MdCollectResults)
    /\ WF_vars(SmartCollect)
    /\ WF_vars(NfsCollect)

\* successive reports in one process, each followed up to
\* parse_physical_drives on a listing of one drive
NextRuns ==
    \/ ParseAdapters
    \/ ParseOneDrive
    \/ NewRun

SpecRuns == Init /\ [][NextRuns]_vars

\* RaidReport.automatic_cli called in a fresh process
InitSelect ==
    /\ manager = "none"
    /\ concurrency = DEFAULT_CONCURRENCY
    /\ Fresh
    /\ files \in DirListings
    /\ on_path \in SUBSET Managers
    /\ imported = {}
    /\ scan = "none"
    /\ considered = 0
    /\ instantiated = [m \in Managers |-> 0]
    /\ selection = "running"
    /\ runs = 0

NextSelect == Consider \/ Exhausted

SpecSelect == InitSelect /\ [][NextSelect]_vars

\* ================================================================ claims
\* what the linked graph holds, by position in phy_drives and log_drives
OwnDrives(a) ==
    {p \in 1..Len(phy_drives) : phy_drives[p].obj.adapter_id = adapters[a].adapter_id}

MemberDrives == {p \in 1..Len(phy_drives) :
                    \E l \in 1..Len(log_drives) : p \in Range(log_drives[l].physical_drives[1])}

ParsedAdapterIds == {adapters[a].adapter_id : a \in 1..Len(adapters)}

\* C1 as stated: after connect_data, physical_drives and
\* spare_physical_drives of every adapter are disjoint and their union is
\* the set of parsed drives with that adapter's id.
C1_DisjointCover ==
    pc = "connected" =>
        \A a \in 1..Len(adapters) :
            LET phys == Range(adapters[a].physical_drives[1])
                spare == Range(adapters[a].spare_physical_drives[1])
            IN  /\ phys \cap spare = {}
                /\ phys \cup spare = OwnDrives(a)

\* C1 amended: after connect_data, physical_drives of every adapter holds
\* each parsed drive with that adapter's id exactly once,
\* spare_physical_drives is a part of it, and the spare drives and the
\* drives that are members of a logical drive split it in two.
C1_SpareWithinPhysical ==
    pc = "connected" =>
        \A a \in 1..Len(adapters) :
            LET phys == adapters[a].physical_drives[1]
                spare == adapters[a].spare_physical_drives[1]
            IN  /\ Range(phys) = OwnDrives(a)
                /\ Len(phys) = Cardinality(OwnDrives(a))
                /\ Range(spare) \subseteq Range(phys)
                /\ Range(phys) \cup Range(spare) = OwnDrives(a)
                /\ Range(spare) \cap MemberDrives = {}
                /\ Range(spare) \cup (MemberDrives \cap OwnDrives(a)) = OwnDrives(a)

C1_Witness ==
    /\ pc = "connected"
    /\ \E a \in 1..Len(adapters) :
        /\ adapters[a].spare_physical_drives[1] /= <<>>
        /\ Len(adapters[a].physical_drives[1]) > Len(adapters[a].spare_physical_drives[1])

\* the listing shows the drive a member id names on the logical drive's own
\* adapter
MemberOnOwnAdapter(l, id) ==
    \E i \in 1..Len(pd_listing) :
        /\ pd_listing[i].adapter_id = log_drives[l].adapter_id
        /\ DriveKey(manager, pd_listing[i]) = id

ValidMembership ==
    \A l \in 1..Len(log_drives) :
        \A i \in 1..Len(log_drives[l].phy_drive_ids) :
            MemberOnOwnAdapter(l, log_drives[l].phy_drive_ids[i])

\* C2: after linking, every drive in a logical drive's physical_drives has
\* the logical drive's adapter, for every listing in which each member is a
\* drive of the logical drive's adapter, also when a raw drive id occurs on
\* two adapters.
C2_SameAdapter ==
    (pc = "connected" /\ ValidMembership) =>
        \A l \in 1..Len(log_drives) :
            \A p \in Range(log_drives[l].physical_drives[1]) :
                phy_drives[p].obj.adapter = log_drives[l].adapter

\* C6: connect_data raises KeyError whenever a logical or physical drive
\* names an adapter that was not parsed, and it completes only with every
\* drive holding its adapter and listed by that adapter.
UnresolvedAdapter ==
    \/ \E l \in 1..Len(log_drives) : log_drives[l].adapter_id \notin ParsedAdapterIds
    \/ \E p \in 1..Len(phy_drives) : phy_drives[p].obj.adapter_id \notin ParsedAdapterIds

AdaptersResolved ==
    /\ \A l \in 1..Len(log_drives) :
        /\ log_drives[l].adapter /= None
        /\ adapters[log_drives[l].adapter[1]].adapter_id = log_drives[l].adapter_id
        /\ l \in Range(adapters[log_drives[l].adapter[1]].logical_drives[1])
    /\ \A p \in 1..Len(phy_drives) :
        /\ phy_drives[p].obj.adapter /= None
        /\ adapters[phy_drives[p].obj.adapter[1]].adapter_id = phy_drives[p].obj.adapter_id
        /\ p \in Range(adapters[phy_drives[p].obj.adapter[1]].physical_drives[1])

C6_UnresolvedAdapterFatal ==
    [][/\ (pc = "logical" /\ UnresolvedAdapter) => (pc' = "failed" /\ error' = "KeyError")
       /\ pc' = "connected" => (~UnresolvedAdapter' /\ AdaptersResolved')]_vars

UnresolvedMember ==
    \E l \in 1..Len(log_drives) :
        \E i \in 1..Len(log_drives[l].phy_drive_ids) :
            ~DictHas(phy_drives, log_drives[l].phy_drive_ids[i])

C6_Witness ==
    /\ pc = "failed" /\ error = "KeyError"
    /\ UnresolvedAdapter /\ ~UnresolvedMember

\* C7: connect_data raises KeyError whenever a member id of a logical drive
\* is no key of the physical-drive table, and it completes only with every
\* member id resolved to the table entry of that key.
MembersResolved ==
    \A l \in 1..Len(log_drives) :
        /\ log_drives[l].physical_drives /= None
        /\ Len(log_drives[l].physical_drives[1]) = Len(log_drives[l].phy_drive_ids)
        /\ \A i \in 1..Len(log_drives[l].phy_drive_ids) :
            phy_drives[log_drives[l].physical_drives[1][i]].key = log_drives[l].phy_drive_ids[i]

C7_UnresolvedMemberFatal ==
    [][/\ (pc = "logical" /\ UnresolvedMember) => (pc' = "failed" /\ error' = "KeyError")
       /\ pc' = "connected" => (~UnresolvedMember' /\ MembersResolved')]_vars

C7_Witness ==
    /\ pc = "failed" /\ error = "KeyError"
    /\ UnresolvedMember /\ ~UnresolvedAdapter

\* no drive of the hardware is listed under two logical drives
DisjointArrays ==
    \A l1, l2 \in 1..Len(log_drives) :
        (l1 /= l2 /\ log_drives[l1].adapter_id = log_drives[l2].adapter_id) =>
            Range(log_drives[l1].phy_drive_ids) \cap Range(log_drives[l2].phy_drive_ids) = {}

\* C8: after linking, every physical drive is in the physical_drives of at
\* most one logical drive, and its logical_drive is the one that lists it.
C8_AtMostOneLogicalDrive ==
    (pc = "connected" /\ ValidMembership /\ DisjointArrays) =>
        \A p \in 1..Len(phy_drives) :
            LET owners == {l \in 1..Len(log_drives) :
                                p \in Range(log_drives[l].physical_drives[1])}
            IN  /\ Cardinality(owners) <= 1
                /\ \A l \in owners : phy_drives[p].obj.logical_drive = Some(l)

\* the drive_id a parser gives the drive of a block
RawDriveId(m, b) == IF m = "storcli" THEN StorCliDid(b.id) ELSE b.id

\* C9: every drive block read by parse_physical_drives has its own entry in
\* the table, so two drives with the same raw id on two adapters are both
\* kept.
C9_CompositeKey ==
    pc = "physical" =>
        \A i \in 1..Len(pd_listing) :
            \E p \in 1..Len(phy_drives) :
                /\ phy_drives[p].obj.adapter_id = pd_listing[i].adapter_id
                /\ phy_drives[p].obj.drive_id = RawDriveId(manager, pd_listing[i])

\* C10: a second connect_data on the same report leaves every list and
\* every reference of the graph as the first run left it.
C10_ConnectIdempotent ==
    [][pc = "connected" =>
        /\ pc' = "connected"
        /\ adapters' = adapters
        /\ phy_drives' = phy_drives
        /\ log_drives' = log_drives]_vars

C10_Witness ==
    /\ connects = 2
    /\ \E l \in 1..Len(log_drives) : log_drives[l].physical_drives[1] /= <<>>
    /\ \E a \in 1..Len(adapters) : adapters[a].spare_physical_drives[1] /= <<>>

\* a raw health value no parser mentions
UnknownState == "???"

\* C4: in every parser a drive whose raw state is a value the parser does
\* not know is not given status GOOD.
C4_UnknownNeverGood ==
    pc = "physical" =>
        \A p \in 1..Len(phy_drives) :
            phy_drives[p].obj.state = UnknownState => phy_drives[p].obj.status /= STATUS_GOOD

\* a field of the block that reports a failure
FailureIndicator(m, b) ==
    \/ b.state /= HealthyState(m)
    \/ m \in {"megacli", "storcli"} /\ b.errs /= 0

\* C5: in the parsers that read a temperature (MegaCli, storcli), a drive
\* block without a temperature field is parsed without an error into a
\* drive with an empty temperature, whose status is GOOD only if the block
\* has no failure indicator.
C5_MissingTemperatureTolerated ==
    (/\ manager \in {"megacli", "storcli"}
     /\ pc \in {"physical", "failed"}
     /\ pd_listing /= <<>>
     /\ pd_listing[1].temp = None) =>
        /\ pc = "physical"
        /\ error = "none"
        /\ Len(phy_drives) = 1
        /\ phy_drives[1].obj.temperature = ""
        /\ phy_drives[1].obj.status = STATUS_GOOD => ~FailureIndicator(manager, pd_listing[1])

\* C3: a probe batch of N items ends with N results, each paired with its
\* item, whatever subset of the probes timed out; only a probe whose output
\* cannot be parsed, never a timeout, keeps the batch from completing.
C3_OneResultPerItem ==
    /\ batch = "collected" =>
        /\ Len(results) = Len(tasks)
        /\ \A i \in 1..Len(tasks) : results[i][1] = tasks[i].item
        /\ kind = "smart" => Len(disks) = Len(tasks)
        /\ kind = "examine" =>
            \A i \in 1..Len(pd_listing) : DictHas(phy_drives, pd_listing[i].id)
    /\ (batch = "raised" /\ tasks /= <<>>) =>
        \E i \in 1..Len(tasks) :
            tasks[i].outcome[1].ret /= TIMEOUT_EXIT /\ tasks[i].outcome[1].out = "garbage"

C3_Witness ==
    /\ batch = "collected"
    /\ \E i, j \in 1..Len(tasks) :
        /\ tasks[i].outcome[1].ret = TIMEOUT_EXIT
        /\ tasks[j].outcome[1].ret = 0

\* ------------------------------------------------------------- selection
\* the module of files[i] was imported and its report class called
Tried(i) == IsRaidModule(files[i]) /\ ModuleReport(files[i]) \in imported

\* the constructor of manager m returns on this host
CanInstantiate(m) == m \in on_path /\ (m = "md" => scan = "arrays")

\* C11: automatic_cli returns the report of the first candidate, in the
\* order of the directory listing, whose constructor returns, and raises the
\* "No supported RAID managers" RaidReportException exactly when the
\* constructor of no candidate returns.
C11_FirstInstantiableSelected ==
    /\ selection = "returned" =>
        /\ error = "none"
        /\ Tried(considered + 1)
        /\ manager = ModuleReport(files[considered + 1])
        /\ CanInstantiate(manager)
        /\ \A i \in 1..considered : Tried(i) => ~CanInstantiate(ModuleReport(files[i]))
    /\ selection = "raised" =>
        /\ error = "RaidReportException"
        /\ considered = Len(files)
        /\ \A i \in 1..Len(files) : Tried(i) => ~CanInstantiate(ModuleReport(files[i]))
    /\ (selection \notin {"running", "none"}
        /\ \A i \in 1..Len(files) : Tried(i) => ~CanInstantiate(ModuleReport(files[i])))
        => selection = "raised"

C11_Witness ==
    /\ selection = "returned"
    /\ \E i \in 1..considered : Tried(i)
    /\ \E j \in (considered + 2)..Len(files) : ModuleReport(files[j]) \in on_path

\* C12 as claimed: with mdadm the only executable on PATH, automatic_cli
\* returns the md report and calls no report class more than once.
C12_MdSelected ==
    (selection \in {"returned", "raised"} /\ on_path = {"md"}) =>
        /\ selection = "returned" /\ manager = "md"
        /\ \A m \in Managers : instantiated[m] <= 1

\* C12 amended: with mdadm the only executable on PATH, automatic_cli returns
\* the md report when raid_md imports and `mdadm --detail --scan` exits 0
\* listing at least one array, and raises otherwise; no report class is
\* called more than once in a selection.
C12_MdSelectedWhenManagingArrays ==
    /\ \A m \in Managers : instantiated[m] <= 1
    /\ (selection \in {"returned", "raised"} /\ on_path = {"md"}) =>
        IF "md" \in imported /\ scan \notin {"failed", "empty"} /\ arrays /= <<>>
        THEN selection = "returned" /\ manager = "md"
        ELSE selection = "raised" /\ manager = "none"

C12_Witness ==
    /\ on_path = {"md"}
    /\ selection = "returned"
    /\ manager = "md"
    /\ \E i \in 1..considered : Tried(i)

\* ----------------------------------------------------------- CLI failure
\* connect_data has not touched the adapters
NeverConnected ==
    /\ connects = 0
    /\ \A i \in 1..Len(adapters) :
        adapters[i].physical_drives = None /\ adapters[i].spare_physical_drives = None

\* C13 amended: when a command a parse step runs to list adapters, drives
\* or logical drives exits with a non-zero status, the step raises
\* RaidReportException, collect_all_data ends with it, and connect_data is
\* not reached; the per-drive examine probes of the md parser are excepted,
\* their failure becomes the drive's status.
C13_ListingFailureFatal ==
    exit_status /= 0 =>
        /\ pc = "failed"
        /\ error = "RaidReportException"
        /\ NeverConnected

C13_Witness ==
    /\ exit_status /= 0
    /\ pc = "failed"
    /\ phy_drives /= <<>>
    /\ log_drives /= <<>>

\* C13 as claimed: every non-zero exit of an external tool during a parse
\* step, that of `mdadm --examine` on a drive included, ends the run with
\* RaidReportException before connect_data.
C13_AnyNonZeroExitFatal ==
    /\ C13_ListingFailureFatal
    /\ (manager = "md"
        /\ \E i \in 1..Len(pd_listing) : pd_listing[i].examine.ret \notin {0, TIMEOUT_EXIT})
        => (pc = "failed" /\ error = "RaidReportException" /\ NeverConnected)

\* ------------------------------------------------------- probe failures
\* the lsblk line of the drive a probed device path denotes, and the drive
BlockOfItem(item) ==
    pd_listing[CHOOSE i \in 1..Len(pd_listing) : MdDevicePath(pd_listing[i]) = item]

DriveOfItem(item) == phy_drives[DictIndex(phy_drives, BlockOfItem(item).id)].obj

TimedOut(i) == tasks[i].st = "done" /\ tasks[i].outcome[1].ret = TIMEOUT_EXIT

\* C14: in the md parser a drive whose examine probe times out does not end
\* the run: parse_physical_drives completes, the drive is in the table, and
\* its status is not GOOD.
C14_TimedOutDriveDegraded ==
    kind = "examine" =>
        /\ (\E i \in 1..Len(tasks) : TimedOut(i)) => (pc /= "failed" /\ error = "none")
        /\ (batch = "mapping" /\ AllDone) => ENABLED MdCollectResults
        /\ batch = "collected" =>
            /\ pc = "physical"
            /\ \A i \in 1..Len(tasks) : TimedOut(i) =>
                /\ DictHas(phy_drives, BlockOfItem(tasks[i].item).id)
                /\ DriveOfItem(tasks[i].item).status /= STATUS_GOOD

C14_Witness ==
    /\ kind = "examine"
    /\ batch = "collected"
    /\ \E i \in 1..Len(tasks) :
        /\ TimedOut(i)
        /\ BlockOfItem(tasks[i].item).state = "running"
        /\ DriveOfItem(tasks[i].item).status = STATUS_FAILING

\* C15: a probe that fails in any way (timeout, non-zero exit, output that
\* cannot be parsed) does not end the batch: once every probe has returned
\* the batch completes with one result per item.
C15_ProbeFailureContained ==
    (tasks /= <<>> /\ AllDone /\ batch /= "mapping") =>
        /\ batch = "collected"
        /\ Len(results) = Len(tasks)

\* C16: at any moment of a probe batch at most `concurrency` probes are
\* running, however many items there are.
C16_AtMostConcurrencyRunning ==
    /\ pool.state /= "none" => pool.processes = concurrency
    /\ Cardinality(Running) <= concurrency

C16_Witness ==
    /\ batch = "mapping"
    /\ Cardinality(Running) = concurrency
    /\ Queued /= {}

\* C17: every probe batch comes to its end with every item processed: each
\* probe ends, by itself or killed at its timeout, and until then no item is
\* dropped and no started or finished probe is taken back.
C17_BatchRunsToCompletion ==
    /\ (batch = "mapping") ~> (batch /= "mapping" /\ AllDone)
    /\ [][batch = "mapping" =>
            /\ Len(tasks') = Len(tasks)
            /\ \A i \in 1..Len(tasks) :
                /\ tasks'[i].item = tasks[i].item
                /\ tasks[i].st = "done" => tasks'[i] = tasks[i]
                /\ tasks[i].st = "running" => tasks'[i].st \in {"running", "done"}]_vars

C17_Witness ==
    /\ batch = "collected"
    /\ Len(tasks) > pool.processes
    /\ \E i \in 1..Len(tasks) : tasks[i].hung /\ TimedOut(i)

\* C18: the pool of a probe batch is torn down on every path out of the
\* batch, also when the batch ends with an exception.
C18_PoolTornDown ==
    batch \in {"collected", "raised"} => pool.state /= "open"

\* the mount entry of a probed mount point
MountOfItem(item) == mounts[DictIndex(mounts, item)].obj

\* C19: each returned pair holds the outcome of the probe run on its own
\* item, and the outcome is applied to what the item denotes: the examine
\* result to the drive of the device path, the ls result to the mount point,
\* the SMART result to the entry of the device.
C19_OutcomeStaysWithItem ==
    batch = "collected" =>
        \A i \in 1..Len(tasks) :
            LET item == tasks[i].item
                o == tasks[i].outcome[1]
            IN  /\ results[i][1] = item
                /\ kind = "examine" =>
                    IF o.ret = 0 /\ o.role /= None
                    THEN /\ results[i][2] = [role |-> o.role, uuid |-> o.uuid]
                         /\ DriveOfItem(item).data = [role |-> o.role, uuid |-> o.uuid]
                         /\ DriveOfItem(item).hotspare = (o.role = Some("spare"))
                    ELSE /\ results[i][2] = EmptyData
                         /\ DriveOfItem(item).data = EmptyData
                         /\ DriveOfItem(item).status = STATUS_FAILING
                /\ kind = "nfs" => MountOfItem(item) = (o.ret >= TIMEOUT_EXIT)
                /\ kind = "smart" =>
                    /\ disks[i].device = item
                    /\ disks[i].errors =
                        IF o.ret = TIMEOUT_EXIT \/ o.out = "" THEN {-1} ELSE ErrorBits(o.ret)

C19_Witness ==
    /\ batch = "collected"
    /\ kind = "examine"
    /\ Len(tasks) = 2
    /\ tasks[1].outcome[1].ret = 0 /\ tasks[1].outcome[1].role = Some("spare")
    /\ tasks[2].outcome[1].ret = TIMEOUT_EXIT
    /\ BlockOfItem(tasks[1].item).part

\* ------------------------------------------------------- successive runs
\* C20: nothing persists between collection runs: a report constructed
\* after an earlier run starts with no adapter, no physical drive and no
\* logical drive, so that what it holds later is what its own run parsed.
C20_NothingCarriedOver ==
    (runs > 1 /\ pc = "start") =>
        /\ adapters = <<>>
        /\ phy_drives = <<>>
        /\ log_drives = <<>>

\* ------------------------------------------------------ status severity
Severities == {STATUS_GOOD, STATUS_FAILING, STATUS_FAILED}

\* C21: in every reachable state of every parser, the status of each
\* physical drive in the table is one of GOOD (0), FAILING (1), FAILED (2).
C21_StatusIsSeverity ==
    \A i \in DOMAIN phy_drives : phy_drives[i].obj.status \in Severities

\* a parser has stored a drive it classified from a nonzero error counter
C21_Witness ==
    /\ pc = "physical"
    /\ manager \in {"megacli", "storcli"}
    /\ \E i \in DOMAIN phy_drives :
        /\ phy_drives[i].obj.status = STATUS_FAILING
        /\ \E b \in Range(pd_listing) : DriveKey(manager, b) = phy_drives[i].key /\ b.errs /= 0

\* ------------------------------------------- software RAID, a whole shelf
\* The md report over a shelf of up to MaxShelf drives that lsblk lists in
\* name order, every one running and unmounted, and arrays that each
\* report a UUID of their own.
MaxShelf == 6
ShelfIds == <<"sda", "sdb", "sdc", "sdd", "sde", "sdf">>

\* what `mdadm --examine` finds on a shelf drive: a timeout, a member or a
\* hot spare of an array, or a superblock that names no array
ShelfExamines ==
    {[ret |-> TIMEOUT_EXIT, role |-> None, uuid |-> None],
     [ret |-> 0, role |-> Some("Active device 0"), uuid |-> None],
     [ret |-> 0, role |-> Some("spare"), uuid |-> Some("u0")]}
    \cup {[ret |-> 0, role |-> Some("Active device 0"), uuid |-> Some(u)] : u \in ArrayUuids}

ShelfListings(ids) ==
    UNION {{[i \in 1..n |->
                [adapter_id |-> LINUX_RAID, id |-> ids[i], state |-> "running", errs |-> 0,
                 temp |-> None, hotspare |-> FALSE, os |-> FALSE, part |-> FALSE,
                 examine |-> f[i]]] : f \in [1..n -> ShelfExamines]}
           : n \in 0..(IF MaxShelf < Len(ids) THEN MaxShelf ELSE Len(ids))}

\* 'UUID' in the `mdadm --detail` of an array
ArrayUuid(arr) == IF arr = "/dev/md0" THEN "u0" ELSE "u1"

\* the `mdadm --detail <array>` runs of one parse_logical_drives
ShelfDetails ==
    {[i \in 1..Len(arrays) |->
        [adapter_id |-> LINUX_RAID, members |-> <<>>, uuid |-> ArrayUuid(arrays[i]),
         rc |-> rcs[i]]] : rcs \in [1..Len(arrays) -> ExitCodes]}

\* MdReport.parse_physical_drives over the shelf
MdParsePhysicalDrives == ParsePhysicalDrivesFrom(ShelfListings(ShelfIds))

\* MdReport.parse_logical_drives
MdParseLogicalDrives ==
    /\ manager = "md"
    /\ pc = "physical"
    /\ \E listing \in ShelfDetails :
        LET r == ParsedLogicalDrives("md", listing)
        IN  /\ exit_status' = LastExit(listing)
            /\ log_drives' = r.drives
            /\ IF r.exc = "none"
               THEN pc' = "logical" /\ UNCHANGED error
               ELSE Raise(r.exc)
    /\ UNCHANGED <<manager, arrays, adapters, phy_drives, pd_listing, connects>>
    /\ UNCHANGED <<probe_vars, select_vars, document, connect, runs>>

InitMd ==
    /\ manager = "md"
    /\ concurrency = DEFAULT_CONCURRENCY
    /\ Fresh
    /\ Direct

NextMd ==
    \/ ParseAdapters
    \/ MdParsePhysicalDrives
    \/ MdParseLogicalDrives
    \/ ConnectData

SpecMd == InitMd /\ [][NextMd]_vars

\* positions in phy_drives of the drives that are no hot spare and whose
\* examined data names the UUID of the array
ArrayDrives(arr) ==
    {p \in 1..Len(phy_drives) :
        /\ ~phy_drives[p].obj.hotspare
        /\ phy_drives[p].obj.data.uuid = Some(ArrayUuid(arr))}

\* a list holds exactly the drives at the positions ps, each once, in the
\* order of the table
ListsExactly(refs, ps) ==
    /\ Range(refs) = ps
    /\ Len(refs) = Cardinality(ps)
    /\ \A i, j \in 1..Len(refs) : i < j => refs[i] < refs[j]

\* C22: the md parser makes one logical drive per managed array, whose
\* member ids are exactly the drives that are no hot spare and whose
\* examined Array UUID is that array's; after linking, these are its
\* physical_drives and every other parsed drive is a spare of the
\* 'Linux RAID' adapter.
C22_MdMembership ==
    pc \in {"logical", "connected"} =>
        /\ Len(log_drives) = Len(arrays)
        /\ \A l \in 1..Len(log_drives) :
            /\ log_drives[l].drive_id = arrays[l]
            /\ Len(log_drives[l].phy_drive_ids) = Cardinality(ArrayDrives(arrays[l]))
            /\ ListsExactly([i \in 1..Len(log_drives[l].phy_drive_ids) |->
                                DictIndex(phy_drives, log_drives[l].phy_drive_ids[i])],
                            ArrayDrives(arrays[l]))
            /\ pc = "connected" =>
                ListsExactly(log_drives[l].physical_drives[1], ArrayDrives(arrays[l]))
        /\ pc = "connected" =>
            /\ Len(adapters) = 1
            /\ adapters[1].adapter_id = LINUX_RAID
            /\ ListsExactly(adapters[1].spare_physical_drives[1],
                            (1..Len(phy_drives))
                                \ UNION {ArrayDrives(arrays[l]) : l \in 1..Len(arrays)})

\* the scenario: two arrays, three member drives of the first, two of the
\* second and one spare drive, linked into two logical drives and one spare
C22_Witness ==
    /\ pc = "connected"
    /\ Len(phy_drives) = 6
    /\ Len(log_drives) = 2
    /\ Len(log_drives[1].physical_drives[1]) = 3
    /\ Len(log_drives[2].physical_drives[1]) = 2
    /\ Len(adapters[1].spare_physical_drives[1]) = 1
    /\ \E p \in Range(adapters[1].spare_physical_drives[1]) : phy_drives[p].obj.hotspare

\* ---------------------------------------------------------------- to_dict
\* 'ver' of the dictionary RaidReport.to_dict returns
SCHEMA_VERSION == 1

\* Adapter.to_dict, LogicalDrive.to_dict: the fields the models carry
AdapterToDict(a) == [id |-> a.adapter_id]

LogicalDriveToDict(d) == [id |-> d.drive_id, state |-> d.state]

\* PhysicalDrive.to_dict; 'logical_drive' is the id of the drive's logical
\* drive or None
PhysicalDriveVars(d) ==
    [id |-> d.drive_id, state |-> d.state, temperature |-> d.temperature,
     status |-> d.status, hotspare |-> d.hotspare, data |-> d.data,
     logical_drive |->
        IF d.logical_drive /= None THEN Some(log_drives[d.logical_drive[1]].drive_id) ELSE None]

PhysicalDriveToDict(d) ==
    [id |-> d.drive_id, state |-> d.state, temperature |-> d.temperature,
     status |-> d.status, hotspare |-> d.hotspare,
     logical_drive |->
        IF d.logical_drive /= None THEN Some(log_drives[d.logical_drive[1]].drive_id) ELSE None]

\* RaidReport.to_dict: one entry per adapter with the dictionaries of its
\* logical_drives and physical_drives
to_dict ==
    [ver |-> SCHEMA_VERSION,
     adapters |-> [a \in 1..Len(adapters) |->
        [id |-> AdapterToDict(adapters[a]).id,
         logical_drives |->
            [i \in 1..Len(adapters[a].logical_drives[1]) |->
                LogicalDriveToDict(log_drives[adapters[a].logical_drives[1][i]])],
         physical_drives |->
            [i \in 1..Len(adapters[a].physical_drives[1]) |->
                PhysicalDriveToDict(phy_drives[adapters[a].physical_drives[1][i]].obj)]]],
     manager |-> manager]

\* cli.py: report.collect_data() has returned and report.to_dict() is
\* stored in the post
ToDict ==
    /\ pc = "connected"
    /\ document = None
    /\ document' = Some(to_dict)
    /\ UNCHANGED <<manager, arrays, pc, error, adapters, phy_drives, log_drives, pd_listing,
                   connects, exit_status, connect>>
    /\ UNCHANGED <<probe_vars, select_vars, runs>>

NextDict ==
    \/ ParseAdapters
    \/ ParsePhysicalDrives
    \/ ParseLogicalDrives
    \/ ConnectData
    \/ ToDict

SpecDict == Init /\ [][NextDict]_vars

\* the keys of the normalized models in the dictionaries
AdapterKeys == {"id", "name", "serial", "temperature", "logical_drives", "physical_drives"}
LogicalDriveKeys == {"id", "level", "size", "state"}
PhysicalDriveKeys == {"id", "state", "size", "protocol", "type", "temperature", "status",
                      "slot", "hotspare", "logical_drive"}

\* positions in log_drives / phy_drives of what is linked to adapter a
LinkedLogicalDrives(a) == {l \in 1..Len(log_drives) : log_drives[l].adapter = Some(a)}
LinkedPhysicalDrives(a) == {p \in 1..Len(phy_drives) : phy_drives[p].obj.adapter = Some(a)}

\* C23: the dictionary to_dict returns for a linked report has the schema
\* version, the manager name and one entry per adapter, in order; the entry
\* holds one dictionary for each logical drive and each physical drive
\* linked to that adapter, with the drive's id, state and status; every
\* dictionary has keys of the normalized model only, never the raw data.
C23_NormalizedProjection ==
    document /= None =>
        LET doc == document[1]
        IN  /\ doc.ver = SCHEMA_VERSION
            /\ doc.manager = manager
            /\ DOMAIN doc = {"ver", "adapters", "manager"}
            /\ Len(doc.adapters) = Len(adapters)
            /\ \A a \in 1..Len(adapters) :
                LET e == doc.adapters[a]
                    lds == adapters[a].logical_drives[1]
                    pds == adapters[a].physical_drives[1]
                IN  /\ e.id = adapters[a].adapter_id
                    /\ DOMAIN e \subseteq AdapterKeys
                    /\ Range(lds) = LinkedLogicalDrives(a)
                    /\ Range(pds) = LinkedPhysicalDrives(a)
                    /\ Len(e.logical_drives) = Cardinality(LinkedLogicalDrives(a))
                    /\ Len(e.physical_drives) = Cardinality(LinkedPhysicalDrives(a))
                    /\ \A i \in 1..Len(e.logical_drives) :
                        /\ DOMAIN e.logical_drives[i] \subseteq LogicalDriveKeys
                        /\ e.logical_drives[i].id = log_drives[lds[i]].drive_id
                        /\ e.logical_drives[i].state = log_drives[lds[i]].state
                    /\ \A i \in 1..Len(e.physical_drives) :
                        /\ DOMAIN e.physical_drives[i] \subseteq PhysicalDriveKeys
                        /\ e.physical_drives[i].id = phy_drives[pds[i]].obj.drive_id
                        /\ e.physical_drives[i].state = phy_drives[pds[i]].obj.state
                        /\ e.physical_drives[i].status = phy_drives[pds[i]].obj.status

\* the dictionary of a report with a logical drive and a member drive whose
\* raw data is not empty
C23_Witness ==
    /\ document /= None
    /\ \E a \in 1..Len(adapters) :
        /\ document[1].adapters[a].logical_drives /= <<>>
        /\ \E i \in 1..Len(document[1].adapters[a].physical_drives) :
            /\ document[1].adapters[a].physical_drives[i].logical_drive /= None
            /\ phy_drives[adapters[a].physical_drives[1][i]].obj.data /= EmptyData

\* ------------------------------------------------------------- spare sets
\* the drive at position p of the table is listed, by its key, in the
\* phy_drive_ids of some logical drive
ListedInArray(p) ==
    \E l \in 1..Len(log_drives) : phy_drives[p].key \in Range(log_drives[l].phy_drive_ids)

\* C24: after linking, spare_physical_drives of every adapter holds, each
\* once, exactly the physical drives of that adapter whose logical_drive is
\* None, and these are the drives of the adapter that no logical drive
\* lists in its phy_drive_ids.
C24_SparesAreUnlisted ==
    pc = "connected" =>
        \A a \in 1..Len(adapters) :
            LET spare == adapters[a].spare_physical_drives[1]
                unreferenced == {p \in OwnDrives(a) : phy_drives[p].obj.logical_drive = None}
            IN  /\ Range(spare) = unreferenced
                /\ Len(spare) = Cardinality(unreferenced)
                /\ unreferenced = {p \in OwnDrives(a) : ~ListedInArray(p)}
                /\ Range(spare) \subseteq Range(adapters[a].physical_drives[1])

\* an adapter with a drive no logical drive lists and a drive one lists
C24_Witness ==
    /\ pc = "connected"
    /\ \E a \in 1..Len(adapters) :
        /\ \E p \in Range(adapters[a].spare_physical_drives[1]) : ~ListedInArray(p)
        /\ \E q \in OwnDrives(a) : ListedInArray(q)

\* -------------------------------------------------------- MegaCli status
\* the block of the listing a drive of the table was built from
BlockOfDrive(p) ==
    CHOOSE b \in Range(pd_listing) : DriveKey(manager, b) = phy_drives[p].key

\* C25: MegaCli classifies a drive FAILED when its firmware state contains
\* 'bad', whatever its predictive failure count, else FAILING when the
\* count is not zero, else GOOD.
C25_MegaCliClassification ==
    (manager = "megacli" /\ pc = "physical") =>
        \A p \in 1..Len(phy_drives) :
            LET bad == ContainsBad(BlockOfDrive(p).state)
                predicted == BlockOfDrive(p).errs /= 0
                status == phy_drives[p].obj.status
            IN  /\ bad => status = STATUS_FAILED
                /\ (predicted /\ ~bad) => status = STATUS_FAILING
                /\ (~predicted /\ ~bad) => status = STATUS_GOOD

\* a MegaCli drive with a nonzero count and a bad firmware state
C25_Witness ==
    /\ manager = "megacli"
    /\ pc = "physical"
    /\ \E p \in 1..Len(phy_drives) :
        /\ ContainsBad(BlockOfDrive(p).state)
        /\ BlockOfDrive(p).errs /= 0
        /\ phy_drives[p].obj.status = STATUS_FAILED

\* ------------------------------------------------------------- stale NFS
\* C26: a mount point is stale exactly when the timed ls on it exits with
\* 124 or more; exit 0 and exit 2 (permission denied) are not stale; after
\* collect_data the table has one entry per mount point, holding the
\* staleness of the probe run on that mount point.
C26_StaleFromExitStatus ==
    (batch = "collected" /\ kind = "nfs") =>
        /\ Len(mounts) = Len(tasks)
        /\ \A i \in 1..Len(tasks) :
            LET ret == tasks[i].outcome[1].ret
            IN  /\ mounts[i].key = tasks[i].item
                /\ results[i] = <<tasks[i].item, mounts[i].obj>>
                /\ mounts[i].obj <=> ret >= 124
                /\ ret \in {0, 2} => ~mounts[i].obj

\* two mount points, the first denied, the second ended by a signal
C26_Witness ==
    /\ batch = "collected"
    /\ kind = "nfs"
    /\ Len(tasks) = 2
    /\ tasks[1].outcome[1].ret = 2 /\ ~mounts[1].obj
    /\ tasks[2].outcome[1].ret > 124 /\ mounts[2].obj

\* ----------------------------------------------------- md severity order
\* C27: in the md parser the severity of a drive only gets worse: a drive
\* classified FAILED from its bus state is still FAILED once the examine
\* results are applied, also when its probe failed or timed out.
C27_FailedStaysFailed ==
    (manager = "md" /\ pc = "physical") =>
        \A p \in 1..Len(phy_drives) :
            BlockOfDrive(p).state /= "running" => phy_drives[p].obj.status = STATUS_FAILED

\* ------------------------------------------- a module without `report`
\* The package directory with one more raid_*.py file, a module that
\* defines no `report`.
PluginFiles == PackageFiles \cup {DirEntry("raid_", "util", ".py")}

PluginListings ==
    {s \in SeqsUpTo(PluginFiles, Cardinality(PluginFiles)) :
        Len(s) = Cardinality(PluginFiles) /\ NoRepeat(s)}

InitPlugin ==
    /\ manager = "none"
    /\ concurrency = DEFAULT_CONCURRENCY
    /\ Fresh
    /\ files \in PluginListings
    /\ on_path \in SUBSET Managers
    /\ imported = {}
    /\ scan = "none"
    /\ considered = 0
    /\ instantiated = [m \in Managers |-> 0]
    /\ selection = "running"
    /\ runs = 0

NextPlugin == Consider \/ ConsiderReportless \/ Exhausted

SpecPlugin == InitPlugin /\ [][NextPlugin]_vars

\* C28: a raid_* module that imports and defines no `report` is skipped:
\* the loop goes on after it, and the only exception that leaves
\* automatic_cli is the RaidReportException raised after the last entry.
C28_ReportlessModuleSkipped ==
    /\ selection = "raised" => (error = "RaidReportException" /\ considered = Len(files))
    /\ \A i \in 1..Len(files) :
        (IsRaidModule(files[i]) /\ ~HasReport(files[i]) /\ files[i].stem \in imported)
            => (considered >= i \/ selection = "returned")

\* ------------------------------------------------------ order of phases
\* collect_all_data called with either value of connect
InitPhases ==
    /\ manager \in Managers
    /\ concurrency = DEFAULT_CONCURRENCY
    /\ FreshReport
    /\ connect \in BOOLEAN
    /\ Direct

SpecPhases == InitPhases /\ [][Next]_vars

\* the phase a step may lead to from each phase
PhaseOrder ==
    \/ pc = "start" /\ pc' \in {"adapters", "failed"}
    \/ pc = "adapters" /\ pc' \in {"physical", "failed"}
    \/ pc = "physical" /\ pc' \in {"logical", "failed"}
    \/ pc = "logical" /\ pc' \in {"connected", "failed"}

\* C29: one collect_all_data run goes through parse_adapters,
\* parse_physical_drives, parse_logical_drives and (post_process and)
\* connect_data in this order, each at most once and none after a failure;
\* each phase changes its own collection only; connect_data runs only with
\* connect true and after the three parse phases succeeded; omreport raises
\* RaidReportException instead of parsing drives while it has no adapter.
C29_PhasesInOrder ==
    [][/\ pc' /= pc => PhaseOrder
       /\ pc = "start" => UNCHANGED <<phy_drives, log_drives>>
       /\ pc = "adapters" => UNCHANGED <<adapters, log_drives>>
       /\ pc = "physical" => UNCHANGED <<adapters, phy_drives>>
       /\ pc = "failed" => UNCHANGED vars
       /\ (pc = "logical" /\ <<adapters, phy_drives, log_drives, pc>>'
                                /= <<adapters, phy_drives, log_drives, pc>>)
            => (connect /\ error = "none")
       /\ (manager = "omreport" /\ adapters = <<>> /\ pc \in {"adapters", "physical"})
            => /\ pc' = "failed"
               /\ error' = "RaidReportException"
               /\ UNCHANGED <<phy_drives, log_drives>>
      ]_vars

\* a run with connect false that parsed drives and logical drives and
\* linked nothing
C29_Witness ==
    /\ ~connect
    /\ pc = "logical"
    /\ phy_drives /= <<>>
    /\ log_drives /= <<>>
    /\ \A a \in 1..Len(adapters) : adapters[a].physical_drives = None
    /\ ~ENABLED ConnectData

\* ------------------------------------------------- frame of connect_data
\* what the parsers stored in each entity, without the reference fields
ParsedAdapter(a) == [adapter_id |-> a.adapter_id]

ParsedPhysicalDrive(e) ==
    [key |-> e.key, drive_id |-> e.obj.drive_id, state |-> e.obj.state,
     temperature |-> e.obj.temperature, status |-> e.obj.status,
     adapter_id |-> e.obj.adapter_id, hotspare |-> e.obj.hotspare, data |-> e.obj.data]

ParsedLogicalDrive(d) ==
    [drive_id |-> d.drive_id, state |-> d.state, adapter_id |-> d.adapter_id,
     phy_drive_ids |-> d.phy_drive_ids, problem |-> d.problem]

ParsedAttributes(as, pds, lds) ==
    <<[a \in 1..Len(as) |-> ParsedAdapter(as[a])],
      [p \in 1..Len(pds) |-> ParsedPhysicalDrive(pds[p])],
      [l \in 1..Len(lds) |-> ParsedLogicalDrive(lds[l])]>>

====
